---- MODULE Spec2Model ----
(***************************************************************************)
(* Submission pipeline of the RSNA pneumonia detector:                     *)
(*   src/prepare_submission.py    prepare_submission,                      *)
(*                                prepare_submission_multifolds,           *)
(*                                prepare_test_predictions, reduce_wh,     *)
(*                                prepare_submission_from_saved            *)
(*   src/pytorch_retinanet/model.py   RetinaNet.forward, RetinaNet.boxes   *)
(*                                                                         *)
(* Real numbers (float32/float64 tensors) are exact rationals <<n, d>>     *)
(* with d > 0, kept in lowest terms.  A tensor of shape (1, A, k) is a     *)
(* sequence of A tuples of length k; the leading batch dimension of 1 is   *)
(* dropped.  Python's 0-based indices are 1-based here.                    *)
(***************************************************************************)
EXTENDS Integers, Sequences, FiniteSets, TLC

(***************************************************************************)
(* Bounds of the model.                                                    *)
(***************************************************************************)
\* number of rows of ../input/stage_1_sample_submission.csv
NumImages == 7
\* the epochs a caller may request are 1..MaxEpochs
MaxEpochs == 2

(***************************************************************************)
(* Exact rational arithmetic, standing for the float arithmetic of numpy   *)
(* and torch.                                                              *)
(***************************************************************************)
Abs(x) == IF x < 0 THEN -x ELSE x

RECURSIVE GCD(_, _)
GCD(a, b) == IF b = 0 THEN a ELSE GCD(b, a % b)

LCM(a, b) == (a \div GCD(a, b)) * b

Rat(n, d) == LET g == GCD(Abs(n), d) IN <<n \div g, d \div g>>

I(n) == <<n, 1>>

RAdd(x, y) ==
    LET l == LCM(x[2], y[2])
    IN  Rat(x[1] * (l \div x[2]) + y[1] * (l \div y[2]), l)

RNeg(x) == <<-x[1], x[2]>>

RSub(x, y) == RAdd(x, RNeg(y))

RMul(x, y) ==
    LET g1 == GCD(Abs(x[1]), y[2])
        g2 == GCD(Abs(y[1]), x[2])
    IN  Rat((x[1] \div g1) * (y[1] \div g2), (x[2] \div g2) * (y[2] \div g1))

RLt(x, y) ==
    LET l == LCM(x[2], y[2])
    IN  x[1] * (l \div x[2]) < y[1] * (l \div y[2])

RLe(x, y) == ~RLt(y, x)

RMax(x, y) == IF RLt(x, y) THEN y ELSE x

RMin(x, y) == IF RLt(y, x) THEN y ELSE x

RECURSIVE RSum(_)
RSum(s) == IF s = <<>> THEN I(0) ELSE RAdd(Head(s), RSum(Tail(s)))

\* elementwise operations on tuples of rationals (one row of a tensor)
VAdd(u, v) == [j \in DOMAIN u |-> RAdd(u[j], v[j])]

VScale(u, c) == [j \in DOMAIN u |-> RMul(u[j], c)]

\* elementwise operations on (A, k) tensors
TAdd(s, t) == [i \in DOMAIN s |-> VAdd(s[i], t[i])]

TScale(s, c) == [i \in DOMAIN s |-> VScale(s[i], c)]

(***************************************************************************)
(* Program constants.                                                      *)
(***************************************************************************)
Folds == 0 .. 3

Epochs == 1 .. MaxEpochs

ImgSize == 8

NativeSize == 1024

\* scores > 0.025 (model.py 283)
ScoreFloorTenfold == Rat(25, 100)

ScoreFloorZero == I(0)

ScoreFloor == Rat(25, 1000)

\* nms(..., 0.05) (model.py 294)
NmsThresholdHalf == Rat(5, 10)

NmsThreshold == Rat(5, 100)

DampFactor == Rat(5, 10)

GlobalCatScale == I(10)

NoGlobalCatScale == I(5)

ClassZeroWeight == Rat(1, 10)

SizePercentile == 10

Header == "patientId,PredictionString"

\* reduce_wh(orig_sub, updated_sub, reduce_size = 0.05)
ReduceSize == Rat(5, 100)

(***************************************************************************)
(* File names.  A model name or run tag is the sequence of its parts       *)
(* between underscores, so that joining two names with '_' is the          *)
(* concatenation of the sequences; the empty run tag is <<>>.              *)
(***************************************************************************)
ModelNames == {<<"m">>, <<"m", "x">>}

Runs == {<<>>, <<"x">>}

\* the model and run of the submission functions' caller
MainModel == <<"m", "x">>

MainRun == <<>>

\* run_str = '' if run is None or run == '' else f'_{run}', appended to
\* model_name
ModelRunStr(model_name, run) == model_name \o run

\* f'{epoch_num:03}': at least three digits, zero padded
Pad3(n) ==
    IF n < 1000 THEN <<n \div 100, (n \div 10) % 10, n % 10>>
    ELSE <<n \div 1000, (n \div 100) % 10, (n \div 10) % 10, n % 10>>

\* f'checkpoints/{model_name}{run_str}_fold_{fold}/{model_name}_{epoch_num:03}.pt'
CheckpointFile(model_name, run, fold, epoch_num) ==
    <<ModelRunStr(model_name, run), fold, model_name, Pad3(epoch_num)>>

\* f'../output/test_predictions/{model_name}{run_str}_fold_{fold}/{epoch_num:03}/'
\* followed by f'{patient_id}.pkl'
PickleFile(model_name, run, fold, epoch_num, patient_id) ==
    <<ModelRunStr(model_name, run), fold, Pad3(epoch_num), patient_id>>

(***************************************************************************)
(* The detector.  The backbone, the pyramid and the three heads are an     *)
(* opaque function of the checkpoint <<fold, epoch>> and the image; its    *)
(* outputs per test image are tabulated below, one scenario per image.     *)
(* The table is that of the checkpoints of MainModel; the checkpoints of   *)
(* another model give the next image's row (ForwardRawOf).                 *)
(*   regression[i]     = <<dx, dy, dw, dh>> of anchor i                    *)
(*   classification[i] = sigmoid score of anchor i per class               *)
(*   global            = whole-image class probabilities <<a, b, c>>       *)
(*   anchors[i]        = <<x1, y1, x2, y2>>                                *)
(***************************************************************************)
S(n) == Rat(n, 1000)

Box(a, b, c, d) == <<I(a), I(b), I(c), I(d)>>

Zero4 == <<I(0), I(0), I(0), I(0)>>

\* Anchors(img_batch): a pure function of the input resolution.  Anchor 3
\* overlaps anchor 1 (IoU 9/23); anchor 2 is disjoint from both.
BaseAnchors == <<Box(0, 0, 4, 4), Box(4, 4, 8, 8), Box(1, 1, 5, 5)>>

\* the same number of anchors from other generation parameters
ShiftedAnchors == <<Box(1, 1, 5, 5), Box(5, 5, 9, 9), Box(2, 2, 6, 6)>>

\* the anchors of another input resolution
CoarseAnchors == <<Box(0, 0, 4, 4), Box(4, 4, 8, 8)>>

ScenarioIds == {1, 2, 3, 4, 5, 6, 7}

NumScenarios == Cardinality(ScenarioIds)

Scenario(patient) == ((patient - 1) % NumScenarios) + 1

\* whole-image class probabilities; each triple sums to 1
GlobalProbs(fold, epoch, sc) ==
    CASE sc = 2 -> IF epoch % 2 = 1
                   THEN <<Rat(1, 5), Rat(3, 10), Rat(1, 2)>>
                   ELSE <<Rat(1, 10), Rat(1, 10), Rat(4, 5)>>
      [] sc = 5 -> <<I(0), I(0), I(1)>>
      [] sc = 6 -> <<Rat(1, 2), Rat(1, 10), Rat(2, 5)>>
      [] OTHER  -> <<Rat(1, 5), Rat(3, 10), Rat(1, 2)>>

RegressionOut(fold, epoch, sc) ==
    CASE sc = 1 -> <<Zero4, <<I(0), I(0), I(-1), I(-1)>>, Zero4>>
      [] sc = 2 -> << <<I(fold % 2), I(0),
                        I((IF fold = 0 THEN -1 ELSE 0) + (epoch - 1)), I(0)>>,
                      <<I(0), I(0), I(0), I(IF fold = 3 THEN 1 ELSE 0)>>,
                      Zero4 >>
      [] sc = 4 -> << <<I(-2), I(0), I(0), I(0)>>,
                      <<I(2), I(0), I(0), I(0)>>,
                      <<I(0), I(-2), I(0), I(0)>> >>
      [] sc = 7 -> IF fold = 3 /\ epoch = 2
                   THEN <<Zero4, Zero4>>
                   ELSE <<Zero4, Zero4, Zero4>>
      [] OTHER  -> <<Zero4, Zero4, Zero4>>

ClassificationOut(fold, epoch, sc) ==
    CASE sc = 1 -> << <<S(900), S(100)>>, <<S(450), S(200)>>, <<S(100), S(50)>> >>
      [] sc = 2 -> << <<S(800 - 100 * fold), S(100)>>,
                      <<S(300), S(200 + 100 * epoch)>>,
                      <<S(50 * fold), S(0)>> >>
      [] sc = 4 -> << <<S(25), S(10)>>, <<S(10), S(0)>>, <<S(0), S(0)>> >>
      [] sc = 5 -> << <<S(30), S(10)>>, <<S(20), S(20)>>, <<S(15), S(0)>> >>
      [] sc = 6 -> << <<S(600), S(100)>>, <<S(100), S(600)>>, <<S(600), S(600)>> >>
      [] sc = 7 -> IF fold = 3 /\ epoch = 2
                   THEN << <<S(900), S(100)>>, <<S(500), S(0)>> >>
                   ELSE << <<S(900), S(100)>>, <<S(500), S(0)>>, <<S(100), S(0)>> >>
      [] OTHER  -> << <<S(900), S(100)>>, <<S(500), S(200)>>, <<S(60), S(50)>> >>

AnchorsOut(fold, epoch, sc) ==
    CASE sc = 3 /\ fold = 1 -> ShiftedAnchors
      [] sc = 7 /\ fold = 3 /\ epoch = 2 -> CoarseAnchors
      [] OTHER -> BaseAnchors

\* GlobalClassificationModel ends in LogSoftmax: its output is the logarithm
\* of a probability, kept symbolically as [ln |-> p].
LogSoftmax(probs) == [j \in DOMAIN probs |-> [ln |-> probs[j]]]

\* torch.exp / np.exp of a log-probability
ExpOfLog(x) == x.ln

\* the heads' outputs for one image (model.py 307-317)
Heads(model, patient) ==
    LET sc == Scenario(patient)
    IN  [regression            |-> RegressionOut(model[1], model[2], sc),
         classification        |-> ClassificationOut(model[1], model[2], sc),
         global_classification |-> LogSoftmax(GlobalProbs(model[1], model[2], sc)),
         anchors               |-> AnchorsOut(model[1], model[2], sc)]

\* forward(..., return_raw=True): the raw prediction, with the whole-image
\* log-probabilities exponentiated (model.py 319-320)
ForwardRaw(model, patient) ==
    LET h == Heads(model, patient)
    IN  [regression            |-> h.regression,
         classification        |-> h.classification,
         global_classification |->
             [j \in DOMAIN h.global_classification |->
                 ExpOfLog(h.global_classification[j])],
         anchors               |-> h.anchors]

\* the raw prediction of a checkpoint of any model
ForwardRawOf(model_name, model, patient) ==
    IF model_name = MainModel
    THEN ForwardRaw(model, patient)
    ELSE ForwardRaw(model, patient + 1)

(***************************************************************************)
(* Aggregation of the raw predictions of one image.                        *)
(***************************************************************************)
\* the arrays of all raw predictions have one shape (needed by the
\* elementwise sum of tensors and by np.concatenate along axis 0)
SameShapes(raws) ==
    \A m \in DOMAIN raws :
        /\ Len(raws[m].regression) = Len(raws[1].regression)
        /\ Len(raws[m].classification) = Len(raws[1].classification)
        /\ Len(raws[m].anchors) = Len(raws[1].anchors)

\* sum(r[i] for r in model_raw_results) of (A, k) tensors
RECURSIVE TSum(_)
TSum(ts) == IF Len(ts) = 1 THEN ts[1] ELSE TAdd(ts[1], TSum(Tail(ts)))

\* sum(r[i] for r in model_raw_results) / len(models), for one array
MeanOverModelsWrongCount(ts, nmodels) == TScale(TSum(ts), Rat(1, Cardinality(Folds)))

MeanOverModels(ts, nmodels) == TScale(TSum(ts), Rat(1, nmodels))

\* prepare_submission_multifolds: every one of the four arrays, the anchors
\* included, is summed over the models and divided by len(models)
AggregateMultifolds(raws, nmodels) ==
    [regression |->
         MeanOverModels([m \in DOMAIN raws |-> raws[m].regression], nmodels),
     classification |->
         MeanOverModels([m \in DOMAIN raws |-> raws[m].classification], nmodels),
     global_classification |->
         MeanOverModels([m \in DOMAIN raws |-> <<raws[m].global_classification>>],
                        nmodels)[1],
     anchors |->
         MeanOverModels([m \in DOMAIN raws |-> raws[m].anchors], nmodels)]

\* np.mean(x, axis=0) of one component over the raw predictions
NpMeanFoldsOnly(vals) == RMul(RSum(vals), Rat(1, Cardinality(Folds)))

NpMean(vals) == RMul(RSum(vals), Rat(1, Len(vals)))

\* ascending sort (np.percentile partitions the values along axis 0)
RECURSIVE Insert(_, _)
Insert(x, s) ==
    IF s = <<>> THEN <<x>>
    ELSE IF RLe(x, Head(s)) THEN <<x>> \o s
    ELSE <<Head(s)>> \o Insert(x, Tail(s))

RECURSIVE SortAsc(_)
SortAsc(s) == IF s = <<>> THEN <<>> ELSE Insert(Head(s), SortAsc(Tail(s)))

\* np.percentile(x, q, axis=0) with the default linear interpolation:
\* virtual index q/100 * (n-1) into the sorted values
NpPercentile(vals, q) ==
    LET s    == SortAsc(vals)
        pos  == q * (Len(vals) - 1)
        lo   == pos \div 100
        frac == Rat(pos % 100, 100)
    IN  IF lo + 2 > Len(s) THEN s[lo + 1]
        ELSE RAdd(s[lo + 1], RMul(frac, RSub(s[lo + 2], s[lo + 1])))

\* prepare_submission_from_saved, lines 294-310 with the anchors of line 292
AggregateSaved(raws, anchors) ==
    LET A     == Len(raws[1].regression)
        col(i, j) == [m \in DOMAIN raws |-> raws[m].regression[i][j]]
        cls(i, c) == [m \in DOMAIN raws |-> raws[m].classification[i][c]]
        glb(c)    == [m \in DOMAIN raws |-> raws[m].global_classification[c]]
    IN  [regression |->
             [i \in 1 .. A |->
                 <<NpMean(col(i, 1)), NpMean(col(i, 2)),
                   NpPercentile(col(i, 3), SizePercentile),
                   NpPercentile(col(i, 4), SizePercentile)>>],
         classification |->
             [i \in 1 .. A |->
                 [c \in DOMAIN raws[1].classification[i] |-> NpMean(cls(i, c))]],
         global_classification |->
             [c \in DOMAIN raws[1].global_classification |-> NpMean(glb(c))],
         anchors |-> anchors]

(***************************************************************************)
(* Box decoding and clipping (BBoxTransform, ClipBoxes).                   *)
(***************************************************************************)
\* exp(r), truncated after the second-order term: 1 + r + r^2/2, which is
\* positive for every r
Exp(r) == RAdd(I(1), RAdd(r, RMul(Rat(1, 2), RMul(r, r))))

Half(x) == RMul(Rat(1, 2), x)

\* regressBoxes(anchors, regression): centre' = centre + delta * size,
\* size' = size * exp(delta), back to corner form
RegressBoxes(anchors, regression) ==
    [i \in DOMAIN anchors |->
        LET a   == anchors[i]
            d   == regression[i]
            w   == RSub(a[3], a[1])
            h   == RSub(a[4], a[2])
            cx  == RAdd(a[1], Half(w))
            cy  == RAdd(a[2], Half(h))
            pcx == RAdd(cx, RMul(d[1], w))
            pcy == RAdd(cy, RMul(d[2], h))
            pw  == RMul(Exp(d[3]), w)
            ph  == RMul(Exp(d[4]), h)
        IN  <<RSub(pcx, Half(pw)), RSub(pcy, Half(ph)),
              RAdd(pcx, Half(pw)), RAdd(pcy, Half(ph))>>]

\* clipBoxes(boxes, img_batch): x1, y1 = max(0, .); x2 = min(width, .),
\* y2 = min(height, .)
ClipBoxes(boxes, width, height) ==
    [i \in DOMAIN boxes |->
        <<RMax(I(0), boxes[i][1]), RMax(I(0), boxes[i][2]),
          RMin(I(width), boxes[i][3]), RMin(I(height), boxes[i][4])>>]

(***************************************************************************)
(* Greedy non-maximum suppression (pth_nms).                               *)
(***************************************************************************)
Max2(a, b) == IF a < b THEN b ELSE a

Min2(a, b) == IF a < b THEN a ELSE b

\* IoU(a, b) > thresh, with IoU = inter / (area_a + area_b - inter) and an
\* undefined IoU (no positive union) taken as 0.  The coordinates are put
\* on one integer grid of step 1/D first.
IoUExceeds(a, b, thresh) ==
    LET D  == LCM(LCM(LCM(a[1][2], a[2][2]), LCM(a[3][2], a[4][2])),
                  LCM(LCM(b[1][2], b[2][2]), LCM(b[3][2], b[4][2])))
        g(x) == x[1] * (D \div x[2])
        iw == Max2(0, Min2(g(a[3]), g(b[3])) - Max2(g(a[1]), g(b[1])))
        ih == Max2(0, Min2(g(a[4]), g(b[4])) - Max2(g(a[2]), g(b[2])))
        inter == iw * ih
        areaA == (g(a[3]) - g(a[1])) * (g(a[4]) - g(a[2]))
        areaB == (g(b[3]) - g(b[1])) * (g(b[4]) - g(b[2]))
        union == areaA + areaB - inter
    IN  union > 0 /\ inter * thresh[2] > thresh[1] * union

\* indices by descending score; equal scores keep their original order
RECURSIVE InsertDesc(_, _, _)
InsertDesc(i, order, scores) ==
    IF order = <<>> THEN <<i>>
    ELSE IF \/ RLt(scores[Head(order)], scores[i])
            \/ (scores[Head(order)] = scores[i] /\ i < Head(order))
         THEN <<i>> \o order
         ELSE <<Head(order)>> \o InsertDesc(i, Tail(order), scores)

RECURSIVE SortDesc(_, _)
SortDesc(n, scores) ==
    IF n = 0 THEN <<>> ELSE InsertDesc(n, SortDesc(n - 1, scores), scores)

\* take the best remaining box, emit it, discard every remaining box that
\* overlaps it by more than thresh, repeat
RECURSIVE Greedy(_, _, _)
Greedy(order, dets, thresh) ==
    IF order = <<>> THEN <<>>
    ELSE LET best    == Head(order)
             Keep(j) == ~IoUExceeds(dets[best], dets[j], thresh)
         IN  <<best>> \o Greedy(SelectSeq(Tail(order), Keep), dets, thresh)

\* nms(dets, thresh) -> indices of the surviving boxes, best first
Nms(dets, scores, thresh) == Greedy(SortDesc(Len(dets), scores), dets, thresh)

(***************************************************************************)
(* RetinaNet.boxes and the per-image post-processing of the submission     *)
(* functions.                                                              *)
(***************************************************************************)
RECURSIVE RowMax(_)
RowMax(row) ==
    IF Len(row) = 1 THEN row[1] ELSE RMax(row[1], RowMax(Tail(row)))

\* the positions i, ascending, with flags[i] true (boolean-mask indexing)
RECURSIVE Where(_, _)
Where(flags, n) ==
    IF n = 0 THEN <<>>
    ELSE IF flags[n] THEN Append(Where(flags, n - 1), n) ELSE Where(flags, n - 1)

Take(arr, idx) == [k \in 1 .. Len(idx) |-> arr[idx[k]]]

\* boxes(), lines 294-298: suppress the boxes over the floor and return the
\* survivors' scores and boxes, best first.  The fields clipped,
\* scores_over_thresh and anchors_nms_idx are the function's local values,
\* kept for inspection.
BoxesSuppressed(clipped, cls, tb, global_classification, over, idx) ==
    [nms_scores            |-> [k \in 1 .. Len(idx) |-> RowMax(cls[idx[k]])],
     global_classification |-> global_classification,
     transformed_anchors   |-> Take(tb, idx),
     clipped               |-> clipped,
     scores_over_thresh    |-> over,
     anchors_nms_idx       |-> idx]

\* boxes(), lines 285-294: nothing over the floor returns empty results;
\* otherwise the arrays are cut down to the boxes over the floor
BoxesOverThresh(clipped, classification, scores, global_classification, over) ==
    IF over = <<>>
    THEN [nms_scores            |-> <<>>,
          global_classification |-> global_classification,
          transformed_anchors   |-> <<>>,
          clipped               |-> clipped,
          scores_over_thresh    |-> over,
          anchors_nms_idx       |-> <<>>]
    ELSE BoxesSuppressed(clipped, Take(classification, over), Take(clipped, over),
                         global_classification, over,
                         Nms(Take(clipped, over), Take(scores, over), NmsThreshold))

\* boxes(), lines 281-283: scores = max over the classes;
\* scores_over_thresh = scores > 0.025
BoxesScored(clipped, classification, scores, global_classification) ==
    BoxesOverThresh(clipped, classification, scores, global_classification,
                    Where([i \in DOMAIN scores |-> RLt(ScoreFloor, scores[i])],
                          Len(scores)))

\* boxes(img_batch, regression, classification, global_classification,
\* anchors), lines 277-298
Boxes(img_size, regression, classification, global_classification, anchors) ==
    BoxesScored(ClipBoxes(RegressBoxes(anchors, regression), img_size, img_size),
                classification,
                [i \in DOMAIN classification |-> RowMax(classification[i])],
                global_classification)

\* category = category[0, 2] + 0.1 * category[0, 0]
CategoryUsesClassOne(g) == RAdd(g[3], RMul(ClassZeroWeight, g[2]))

Category(g) == RAdd(g[3], RMul(ClassZeroWeight, g[1]))

\* category = np.exp(category[0, 2]) + 0.1 * np.exp(category[0, 0])
CategoryOfLog(g) == RAdd(ExpOfLog(g[3]), RMul(ClassZeroWeight, ExpOfLog(g[1])))

\* if len(scores): scores[scores < scores[0] * 0.5] = 0.0
DampInclusive(scores) ==
    [i \in DOMAIN scores |->
        IF RLe(scores[i], RMul(scores[1], DampFactor)) THEN I(0) ELSE scores[i]]

DampNothing(scores) == scores

Damp(scores) ==
    IF Len(scores) > 0
    THEN [i \in DOMAIN scores |->
             IF RLt(scores[i], RMul(scores[1], DampFactor)) THEN I(0) ELSE scores[i]]
    ELSE scores

\* mask = scores * category * 10 > threshold
MaskGlobalCat(scores, category, threshold) ==
    [i \in DOMAIN scores |->
        RLt(threshold, RMul(RMul(scores[i], category), GlobalCatScale))]

\* mask = scores * 5 > threshold
MaskNoGlobalCat(scores, threshold) ==
    [i \in DOMAIN scores |-> RLt(threshold, RMul(scores[i], NoGlobalCatScale))]

MaskAlwaysGlobalCat(scores, category, threshold, use_global_cat) ==
    MaskGlobalCat(scores, category, threshold)

\* if use_global_cat: ... else: ...
Mask(scores, category, threshold, use_global_cat) ==
    IF use_global_cat
    THEN MaskGlobalCat(scores, category, threshold)
    ELSE MaskNoGlobalCat(scores, threshold)

\* p1p2_to_xywh: corners to <<x, y, width, height>>
P1P2ToXYWH(b) == <<b[1], b[2], RSub(b[3], b[1]), RSub(b[4], b[2])>>

\* f'{v:.3f}', f'{v:.1f}': v rounded to a multiple of 1/scale, halves to
\* even; the result is the integer v * scale
Round(v, scale) ==
    LET n   == v[1] * scale
        fl  == n \div v[2]
        rem == n - fl * v[2]
    IN  IF 2 * rem > v[2] THEN fl + 1
        ELSE IF 2 * rem < v[2] THEN fl
        ELSE IF fl % 2 = 0 THEN fl ELSE fl + 1

\* submission_str: one group ' score x y w h' per selected box, in the order
\* of the suppression output; prob in thousandths, x y w h in tenths
SubmissionStr(scores, boxes, mask, img_size) ==
    LET sel == Where(mask, Len(mask))
    IN  [k \in 1 .. Len(sel) |->
            LET b == VScale(P1P2ToXYWH(boxes[sel[k]]), Rat(NativeSize, img_size))
            IN  [prob |-> Round(scores[sel[k]], 1000),
                 x |-> Round(b[1], 10), y |-> Round(b[2], 10),
                 w |-> Round(b[3], 10), h |-> Round(b[4], 10)]]

(***************************************************************************)
(* State.                                                                  *)
(***************************************************************************)
VARIABLES
    action,             \* the function of prepare_submission.py that runs
    args,               \* its caller's parameters
    pc,                 \* "load", "images", "done", "failed" (an exception),
                        \* then "reduce", "reduced", "reduce_again",
                        \* "reduced_again" for reduce_wh on the finished file
    models,             \* checkpoints loaded so far, each <<fold, epoch>>
    call,               \* __main__'s position in "for epoch_num in args.epoch"
    checkpoints,        \* the checkpoint files that exist
    store,              \* ../output/test_predictions: the pickled raw predictions
    patient,            \* position in sample_submission.patientId
    model_raw_results,  \* raw predictions gathered for the current image
    anchors,            \* prepare_submission_from_saved's local anchors
    res,                \* what the loop body computed for the last image
    submission,         \* the submission file
    orig_sub,           \* reduce_wh: the lines of its input not yet read
    updated_sub,        \* reduce_wh: the lines of its output
    log                 \* the checkpoint loads, model calls, pickle reads and
                        \* line writes of the run, in the order they happened

vars == <<action, args, pc, models, call, checkpoints, store, patient,
          model_raw_results, anchors, res, submission, orig_sub, updated_sub,
          log>>

\* sample_submission.patientId
PatientIds == [p \in 1 .. NumImages |-> p]

\* caller-supplied thresholds; 3/10 is the default of --threshold
DefaultThreshold == Rat(3, 10)

Thresholds == {I(0), Rat(1, 10), Rat(1, 4), DefaultThreshold, I(3)}

\* lists of distinct epochs, as given by --epoch
EpochLists ==
    {<<e>> : e \in Epochs} \cup
    {e \in [1 .. 2 -> Epochs] : e[1] # e[2]} \cup
    {e \in [1 .. 3 -> Epochs] : e[1] # e[2] /\ e[1] # e[3] /\ e[2] # e[3]}

MultiActions == {"prepare_submission_multifolds", "prepare_submission_from_saved"}

SubmissionActions == {"prepare_submission"} \cup MultiActions

\* the (epoch, fold) visited k-th by "for epoch_num in epoch_nums: for fold
\* in range(4)", k counted from 0
NthModelFoldZero(epoch_nums, k) ==
    <<0, epoch_nums[(k \div Cardinality(Folds)) + 1]>>

NthModelFirstEpoch(epoch_nums, k) == <<k % Cardinality(Folds), epoch_nums[1]>>

NthModel(epoch_nums, k) ==
    <<k % Cardinality(Folds), epoch_nums[(k \div Cardinality(Folds)) + 1]>>

NumModels(epoch_nums) == Cardinality(Folds) * Len(epoch_nums)

NoResult == [patient |-> 0]

\* the checkpoints of every model and run, and the raw predictions dumped by
\* earlier runs of prepare_test_predictions for MainModel and MainRun
AllCheckpoints ==
    {CheckpointFile(m, r, f, e) : m \in ModelNames, r \in Runs, f \in Folds,
                                  e \in Epochs}

DumpedFiles ==
    {PickleFile(MainModel, MainRun, f, e, PatientIds[i]) :
        f \in Folds, e \in Epochs, i \in 1 .. NumImages}

\* the digits of Pad3 read back as a number
Unpad(digits) ==
    IF Len(digits) = 3
    THEN digits[1] * 100 + digits[2] * 10 + digits[3]
    ELSE digits[1] * 1000 + digits[2] * 100 + digits[3] * 10 + digits[4]

\* what prepare_test_predictions dumped into a file of MainModel, MainRun
DumpedRaw(file) ==
    ForwardRaw(<<file[2], Unpad(file[3])>>,
               CHOOSE i \in 1 .. NumImages : PatientIds[i] = file[4])

\* a file that may be absent when the run starts
LostCheckpoint == CheckpointFile(MainModel, MainRun, 0, 2)

LostPickle == PickleFile(MainModel, MainRun, 2, 1, PatientIds[2])

InitArgs ==
    \/ /\ action = "prepare_submission"
       /\ \E f \in Folds, e \in Epochs, thr \in Thresholds, ugc \in BOOLEAN :
             args = [model |-> MainModel, run |-> MainRun, fold |-> f,
                     epoch |-> e, threshold |-> thr, use_global_cat |-> ugc]
    \/ /\ action \in MultiActions
       /\ \E es \in EpochLists, thr \in Thresholds, ugc \in BOOLEAN :
             args = [model |-> MainModel, run |-> MainRun, fold |-> -1,
                     epoch |-> es, threshold |-> thr, use_global_cat |-> ugc]
    \/ /\ action = "prepare_test_predictions"
       /\ \E m \in ModelNames, r \in Runs, es \in EpochLists :
             args = [model |-> m, run |-> r, fold |-> -1, epoch |-> es,
                     threshold |-> DefaultThreshold, use_global_cat |-> FALSE]

\* the files present at the start: all of them, or all but one checkpoint,
\* or all but one pickle; a missing file is tried with the default threshold
\* (the threshold has no part in reading files)
InitFiles ==
    \/ /\ checkpoints = AllCheckpoints
       /\ store = [file \in DumpedFiles |-> DumpedRaw(file)]
    \/ /\ args.threshold = DefaultThreshold
       /\ checkpoints = AllCheckpoints \ {LostCheckpoint}
       /\ store = [file \in DumpedFiles |-> DumpedRaw(file)]
    \/ /\ args.threshold = DefaultThreshold
       /\ action = "prepare_submission_from_saved"
       /\ checkpoints = AllCheckpoints
       /\ store = [file \in DumpedFiles \ {LostPickle} |-> DumpedRaw(file)]

Init ==
    /\ action \in SubmissionActions \cup {"prepare_test_predictions"}
    /\ InitArgs
    /\ InitFiles
    /\ pc = "load"
    /\ models = <<>>
    /\ call = 1
    /\ patient = 1
    /\ model_raw_results = <<>>
    /\ anchors = <<>>
    /\ res = NoResult
    /\ submission = [header |-> "", lines |-> <<>>]
    /\ orig_sub = <<>>
    /\ updated_sub = <<>>
    /\ log = <<>>

\* torch.load(checkpoint, map_location=device) finds the file
CheckpointAssumed(file) == TRUE

CheckpointExists(file) == file \in checkpoints

\* entries of the log
Loaded(model) == [op |-> "load", model |-> model, image |-> 0]

Inferred(model, p) == [op |-> "infer", model |-> model, image |-> p]

Unpickled(model, p) == [op |-> "read", model |-> model, image |-> p]

Wrote(p) == [op |-> "write", model |-> <<-1, 0>>, image |-> p]

\* open(...'w'); submission.write('patientId,PredictionString\n')
OpenSubmission == [header |-> Header, lines |-> <<>>]

\* submission.write(f'{patient_id},{submission_str}\n')
WriteLine(sub, patient_id, submission_str) ==
    [sub EXCEPT !.lines =
        Append(@, [patientId |-> patient_id, PredictionString |-> submission_str])]

\* the loop "for patient_id in sample_submission.patientId" moves on
NextPcSkipsLast(p) == IF p >= NumImages - 1 THEN "done" ELSE "images"

NextPc(p) == IF p = NumImages THEN "done" ELSE "images"

\* the values the loop body computed for one image
Result(p, raws, agg, out, category, scores, mask) ==
    [patient  |-> p,
     failed   |-> FALSE,
     raws     |-> raws,
     agg      |-> agg,
     out      |-> out,
     category |-> category,
     scores   |-> scores,
     mask     |-> mask,
     line     |-> SubmissionStr(scores, out.transformed_anchors, mask, ImgSize)]

\* lines 158-167 and 331-340: damp, then filter in the mode selected
MultiFiltered(p, raws, agg, out, category, scores, threshold, use_global_cat) ==
    Result(p, raws, agg, out, category, scores,
           Mask(scores, category, threshold, use_global_cat))

\* lines 153-159 and 326-332
MultiFused(p, raws, agg, out, threshold, use_global_cat) ==
    MultiFiltered(p, raws, agg, out, Category(out.global_classification),
                  Damp(out.nms_scores), threshold, use_global_cat)

\* lines 149-184 and 316-357: decode and suppress the aggregated prediction,
\* fuse, damp, filter and format
MultiResult(p, raws, agg, threshold, use_global_cat) ==
    MultiFused(p, raws, agg,
               Boxes(ImgSize, agg.regression, agg.classification,
                     agg.global_classification, agg.anchors),
               threshold, use_global_cat)

\* lines 74-84: damp, then filter with the whole-image signal
SingleFiltered(p, h, out, category, scores, threshold) ==
    Result(p, <<>>, h, out, category, scores,
           MaskGlobalCat(scores, category, threshold))

\* lines 69-75: the whole-image scores are log-probabilities here
SingleFused(p, h, out, threshold) ==
    SingleFiltered(p, h, out, CategoryOfLog(out.global_classification),
                   Damp(out.nms_scores), threshold)

\* lines 66-67: model(img, return_loss=False, return_boxes=True) is boxes()
\* on the heads' outputs (model.py 328-333)
SingleBoxes(p, h, threshold) ==
    SingleFused(p, h,
                Boxes(ImgSize, h.regression, h.classification,
                      h.global_classification, h.anchors),
                threshold)

\* lines 56-101: the loop body of prepare_submission
SingleResult(p, model, threshold) == SingleBoxes(p, Heads(model, p), threshold)

\* an exception left the loop body before anything was written for the image
Failure(p, raws) == [patient |-> p, failed |-> TRUE, raws |-> raws]

(***************************************************************************)
(* prepare_submission (single checkpoint).                                 *)
(***************************************************************************)
\* lines 44-53: load the checkpoint, open the file, write the header;
\* torch.load raises when the checkpoint file does not exist
PS_Load ==
    /\ action = "prepare_submission"
    /\ pc = "load"
    /\ IF CheckpointExists(CheckpointFile(args.model, args.run, args.fold, args.epoch))
       THEN /\ models' = <<<<args.fold, args.epoch>>>>
            /\ log' = Append(log, Loaded(<<args.fold, args.epoch>>))
            /\ submission' = OpenSubmission
            /\ pc' = "images"
       ELSE /\ pc' = "failed"
            /\ UNCHANGED <<models, log, submission>>
    /\ UNCHANGED <<action, args, call, checkpoints, store, patient,
                   model_raw_results, anchors, res, orig_sub, updated_sub>>

\* lines 55-101: one pass of the loop over the images
PS_Image ==
    /\ action = "prepare_submission"
    /\ pc = "images"
    /\ res' = SingleResult(patient, models[1], args.threshold)
    /\ submission' = WriteLine(submission, PatientIds[patient], res'.line)
    /\ log' = log \o <<Inferred(models[1], patient), Wrote(patient)>>
    /\ pc' = NextPc(patient)
    /\ patient' = patient + 1
    /\ UNCHANGED <<action, args, models, call, checkpoints, store,
                   model_raw_results, anchors, orig_sub, updated_sub>>

(***************************************************************************)
(* prepare_submission_multifolds.                                          *)
(***************************************************************************)
\* lines 114-127: load the next checkpoint; after the last one open the file
MF_Load ==
    /\ action = "prepare_submission_multifolds"
    /\ pc = "load"
    /\ LET m == NthModel(args.epoch, Len(models))
       IN  IF CheckpointExists(CheckpointFile(args.model, args.run, m[1], m[2]))
           THEN /\ models' = Append(models, m)
                /\ log' = Append(log, Loaded(m))
                /\ IF Len(models') = NumModels(args.epoch)
                   THEN pc' = "images" /\ submission' = OpenSubmission
                   ELSE UNCHANGED <<pc, submission>>
           ELSE /\ pc' = "failed"
                /\ UNCHANGED <<models, log, submission>>
    /\ UNCHANGED <<action, args, call, checkpoints, store, patient,
                   model_raw_results, anchors, res, orig_sub, updated_sub>>

\* lines 142-143: the next model on the current image
MF_Infer ==
    /\ action = "prepare_submission_multifolds"
    /\ pc = "images"
    /\ Len(model_raw_results) < Len(models)
    /\ model_raw_results' =
           Append(model_raw_results,
                  ForwardRawOf(args.model, models[Len(model_raw_results) + 1],
                               patient))
    /\ log' = Append(log, Inferred(models[Len(model_raw_results) + 1], patient))
    /\ UNCHANGED <<action, args, pc, models, call, checkpoints, store, patient,
                   anchors, res, submission, orig_sub, updated_sub>>

\* lines 145-184: aggregate, decode, filter, write the image's line.  The
\* elementwise sum raises on arrays of different shapes.
MF_Write ==
    /\ action = "prepare_submission_multifolds"
    /\ pc = "images"
    /\ Len(model_raw_results) = Len(models)
    /\ IF SameShapes(model_raw_results)
       THEN /\ res' = MultiResult(patient, model_raw_results,
                                  AggregateMultifolds(model_raw_results, Len(models)),
                                  args.threshold, args.use_global_cat)
            /\ submission' = WriteLine(submission, PatientIds[patient], res'.line)
            /\ log' = Append(log, Wrote(patient))
            /\ pc' = NextPc(patient)
            /\ patient' = patient + 1
            /\ model_raw_results' = <<>>
       ELSE /\ res' = Failure(patient, model_raw_results)
            /\ pc' = "failed"
            /\ UNCHANGED <<submission, log, patient, model_raw_results>>
    /\ UNCHANGED <<action, args, models, call, checkpoints, store, anchors,
                   orig_sub, updated_sub>>

(***************************************************************************)
(* prepare_test_predictions, called by __main__ once per requested epoch.  *)
(***************************************************************************)
\* lines 202-212: the next fold's checkpoint is loaded
PT_Load ==
    /\ action = "prepare_test_predictions"
    /\ pc = "load"
    /\ LET m == <<Len(models), args.epoch[call]>>
       IN  IF CheckpointExists(CheckpointFile(args.model, args.run, m[1], m[2]))
           THEN /\ models' = Append(models, m)
                /\ log' = Append(log, Loaded(m))
                /\ pc' = "images"
           ELSE /\ pc' = "failed"
                /\ UNCHANGED <<models, log>>
    /\ UNCHANGED <<action, args, call, checkpoints, store, patient,
                   model_raw_results, anchors, res, submission, orig_sub,
                   updated_sub>>

\* lines 214-229: the fold's model on the next image, pickled to the store;
\* after the last image the next fold, after the last fold the next call
PT_Dump ==
    /\ action = "prepare_test_predictions"
    /\ pc = "images"
    /\ LET m == models[Len(models)]
       IN  /\ model_raw_results' = <<ForwardRawOf(args.model, m, patient)>>
           /\ store' =
                  (PickleFile(args.model, args.run, m[1], m[2], PatientIds[patient])
                       :> model_raw_results'[1]) @@ store
           /\ log' = Append(log, Inferred(m, patient))
    /\ IF patient < NumImages
       THEN /\ patient' = patient + 1
            /\ UNCHANGED <<pc, models, call>>
       ELSE /\ patient' = 1
            /\ IF Len(models) < Cardinality(Folds)
               THEN pc' = "load" /\ UNCHANGED <<models, call>>
               ELSE IF call < Len(args.epoch)
                    THEN pc' = "load" /\ models' = <<>> /\ call' = call + 1
                    ELSE pc' = "done" /\ UNCHANGED <<models, call>>
    /\ UNCHANGED <<action, args, checkpoints, anchors, res, submission,
                   orig_sub, updated_sub>>

(***************************************************************************)
(* prepare_submission_from_saved.                                          *)
(***************************************************************************)
\* lines 262-275: load fold 0 of the first epoch, open the file
FS_Load ==
    /\ action = "prepare_submission_from_saved"
    /\ pc = "load"
    /\ IF CheckpointExists(CheckpointFile(args.model, args.run, 0, args.epoch[1]))
       THEN /\ models' = <<<<0, args.epoch[1]>>>>
            /\ log' = Append(log, Loaded(<<0, args.epoch[1]>>))
            /\ submission' = OpenSubmission
            /\ pc' = "images"
       ELSE /\ pc' = "failed"
            /\ UNCHANGED <<models, log, submission>>
    /\ UNCHANGED <<action, args, call, checkpoints, store, patient,
                   model_raw_results, anchors, res, orig_sub, updated_sub>>

\* lines 283-292: unpickle the next (epoch, fold) prediction of the image;
\* open raises when the file does not exist
FS_Read ==
    /\ action = "prepare_submission_from_saved"
    /\ pc = "images"
    /\ Len(model_raw_results) < NumModels(args.epoch)
    /\ LET m    == NthModel(args.epoch, Len(model_raw_results))
           file == PickleFile(args.model, args.run, m[1], m[2], PatientIds[patient])
       IN  IF file \in DOMAIN store
           THEN /\ model_raw_results' = Append(model_raw_results, store[file])
                /\ anchors' = store[file].anchors
                /\ log' = Append(log, Unpickled(m, patient))
                /\ UNCHANGED <<pc, res>>
           ELSE /\ res' = Failure(patient, model_raw_results)
                /\ pc' = "failed"
                /\ UNCHANGED <<model_raw_results, anchors, log>>
    /\ UNCHANGED <<action, args, models, call, checkpoints, store, patient,
                   submission, orig_sub, updated_sub>>

\* lines 294-357: aggregate, decode, filter, write the image's line.
\* np.concatenate raises on arrays of different shapes.
FS_Write ==
    /\ action = "prepare_submission_from_saved"
    /\ pc = "images"
    /\ Len(model_raw_results) = NumModels(args.epoch)
    /\ IF SameShapes(model_raw_results)
       THEN /\ res' = MultiResult(patient, model_raw_results,
                                  AggregateSaved(model_raw_results, anchors),
                                  args.threshold, args.use_global_cat)
            /\ submission' = WriteLine(submission, PatientIds[patient], res'.line)
            /\ log' = Append(log, Wrote(patient))
            /\ pc' = NextPc(patient)
            /\ patient' = patient + 1
            /\ model_raw_results' = <<>>
            /\ anchors' = <<>>
       ELSE /\ res' = Failure(patient, model_raw_results)
            /\ pc' = "failed"
            /\ UNCHANGED <<submission, log, patient, model_raw_results, anchors>>
    /\ UNCHANGED <<action, args, models, call, checkpoints, store, orig_sub,
                   updated_sub>>

(***************************************************************************)
(* reduce_wh, applied to the finished submission file and then to its own  *)
(* output.  A file is the sequence of its lines, each without its newline. *)
(***************************************************************************)
HeaderLine == [kind |-> "header", patientId |-> 0, PredictionString |-> <<>>]

BlankLine == [kind |-> "blank", patientId |-> 0, PredictionString |-> <<>>]

DataLine(patient_id, submission_str) ==
    [kind |-> "data", patientId |-> patient_id, PredictionString |-> submission_str]

\* the lines of a submission file as "for line in open(...)" yields them
FileLines(sub) ==
    <<HeaderLine>> \o
    [k \in 1 .. Len(sub.lines) |->
        DataLine(sub.lines[k].patientId, sub.lines[k].PredictionString)]

\* lines 247-252: one rectangle, parsed from the text, moved and shrunk,
\* formatted again
ReduceRect(g, reduce_size) ==
    LET w == Rat(g.w, 10)
        h == Rat(g.h, 10)
    IN  [prob |-> Round(Rat(g.prob, 1000), 1000),
         x |-> Round(RAdd(Rat(g.x, 10), RMul(RMul(w, reduce_size), Rat(1, 2))), 10),
         y |-> Round(RAdd(Rat(g.y, 10), RMul(RMul(h, reduce_size), Rat(1, 2))), 10),
         w |-> Round(RMul(w, RSub(I(1), reduce_size)), 10),
         h |-> Round(RMul(h, RSub(I(1), reduce_size)), 10)]

\* lines 241-253: the output line of one data line
ReduceLine(line, reduce_size) ==
    DataLine(line.patientId,
             [k \in DOMAIN line.PredictionString |->
                 ReduceRect(line.PredictionString[k], reduce_size)])

\* the call reduce_wh(finished submission, updated_sub)
RW_Open ==
    /\ action \in SubmissionActions
    /\ pc = "done"
    /\ orig_sub' = FileLines(submission)
    /\ updated_sub' = <<>>
    /\ pc' = "reduce"
    /\ UNCHANGED <<action, args, models, call, checkpoints, store, patient,
                   model_raw_results, anchors, res, submission, log>>

\* a second call of reduce_wh, on the file the first call wrote
RW_Again ==
    /\ pc = "reduced"
    /\ orig_sub' = updated_sub
    /\ updated_sub' = <<>>
    /\ pc' = "reduce_again"
    /\ UNCHANGED <<action, args, models, call, checkpoints, store, patient,
                   model_raw_results, anchors, res, submission, log>>

\* lines 236-253: one line of the input.  The header line is written with a
\* second newline after its own (line 238); line.split(',') of a line
\* without a comma cannot be unpacked into patient_id, sub (line 243).
RW_Line ==
    /\ pc \in {"reduce", "reduce_again"}
    /\ orig_sub # <<>>
    /\ LET line == Head(orig_sub)
       IN  IF line.kind = "blank"
           THEN /\ pc' = "failed"
                /\ UNCHANGED <<orig_sub, updated_sub>>
           ELSE /\ updated_sub' =
                       IF line.kind = "header"
                       THEN updated_sub \o <<HeaderLine, BlankLine>>
                       ELSE Append(updated_sub, ReduceLine(line, ReduceSize))
                /\ orig_sub' = Tail(orig_sub)
                /\ pc' = IF Tail(orig_sub) # <<>> THEN pc
                         ELSE IF pc = "reduce" THEN "reduced" ELSE "reduced_again"
    /\ UNCHANGED <<action, args, models, call, checkpoints, store, patient,
                   model_raw_results, anchors, res, submission, log>>

Next ==
    \/ PS_Load
    \/ PS_Image
    \/ MF_Load
    \/ MF_Infer
    \/ MF_Write
    \/ PT_Load
    \/ PT_Dump
    \/ FS_Load
    \/ FS_Read
    \/ FS_Write
    \/ RW_Open
    \/ RW_Again
    \/ RW_Line

Spec == Init /\ [][Next]_vars

(***************************************************************************)
(* Claims.  res holds what the loop body computed for the image handled    *)
(* last; Handled says that its line has just been written (the state right *)
(* after the loop body), Aggregated that the image went through one of the *)
(* two aggregating functions.                                              *)
(***************************************************************************)
Handled ==
    /\ res.patient # 0
    /\ ~res.failed
    /\ pc \in {"images", "done"}
    /\ model_raw_results = <<>>

Aggregated == Handled /\ action \in MultiActions

\* component j of the regression of anchor i, over the raw predictions
RegColumn(i, j) == [m \in DOMAIN res.raws |-> res.raws[m].regression[i][j]]

ClsColumn(i, c) == [m \in DOMAIN res.raws |-> res.raws[m].classification[i][c]]

GlbColumn(c) == [m \in DOMAIN res.raws |-> res.raws[m].global_classification[c]]

AnchorsDiffer ==
    \E m \in DOMAIN res.raws : res.raws[m].anchors # res.raws[1].anchors

\* C1: whenever the raw predictions of one image do not all carry the same
\* anchor set, the aggregating function fails with an error and writes no
\* line for that image.
C1_MismatchedAnchorsFailFast ==
    (action \in MultiActions /\ res.patient # 0 /\ AnchorsDiffer)
        => /\ res.failed
           /\ pc = "failed"
           /\ Len(submission.lines) = res.patient - 1

\* C2: in both aggregating functions the size components (3 and 4) of the
\* aggregated regression are the linearly interpolated 10th percentile of
\* that component over all raw predictions.
C2_SizeIsTenthPercentile ==
    Aggregated =>
        \A i \in DOMAIN res.agg.regression : \A j \in {3, 4} :
            res.agg.regression[i][j] = NpPercentile(RegColumn(i, j), 10)

\* x is the arithmetic mean of vals: x * n = the sum of the n values
IsMeanOf(x, vals) == RMul(x, I(Len(vals))) = RSum(vals)

\* C3: the aggregated position components (1 and 2), per-box scores and
\* whole-image scores are the arithmetic means over the raw predictions of
\* all 4 folds of every requested epoch.
C3_MeanOfPositionAndScores ==
    Aggregated =>
        /\ Len(res.raws) = 4 * Len(args.epoch)
        /\ \A k \in DOMAIN res.raws :
              res.raws[k] =
                  ForwardRaw(<<(k - 1) % 4, args.epoch[((k - 1) \div 4) + 1]>>,
                             res.patient)
        /\ \A i \in DOMAIN res.agg.regression : \A j \in {1, 2} :
              IsMeanOf(res.agg.regression[i][j], RegColumn(i, j))
        /\ \A i \in DOMAIN res.agg.classification :
              \A c \in DOMAIN res.agg.classification[i] :
                  IsMeanOf(res.agg.classification[i][c], ClsColumn(i, c))
        /\ \A c \in DOMAIN res.agg.global_classification :
              IsMeanOf(res.agg.global_classification[c], GlbColumn(c))

\* an image whose raw predictions differ between the models in a position
\* component, a per-box score and a whole-image score
C3_Witness ==
    /\ Aggregated
    /\ Len(res.raws) = 8
    /\ \E m \in DOMAIN res.raws :
          /\ res.raws[m].regression[1][1] # res.raws[1].regression[1][1]
          /\ res.raws[m].classification[1][1] # res.raws[1].classification[1][1]
          /\ res.raws[m].global_classification[3] #
                 res.raws[1].global_classification[3]

AllCopies == \A m \in DOMAIN res.raws : res.raws[m] = res.raws[1]

\* C4: aggregating N identical copies of one raw prediction returns that
\* prediction: regression, per-box scores, whole-image scores and anchors.
C4_IdenticalCopies ==
    (Aggregated /\ AllCopies) =>
        /\ res.agg.regression = res.raws[1].regression
        /\ res.agg.classification = res.raws[1].classification
        /\ res.agg.global_classification = res.raws[1].global_classification
        /\ res.agg.anchors = res.raws[1].anchors

\* eight identical copies with non-zero size deltas were aggregated
C4_Witness ==
    /\ Aggregated
    /\ AllCopies
    /\ Len(res.raws) = 8
    /\ res.raws[1].regression[2][3] # I(0)

\* the whole-image class probabilities <<a, b, c>> the image was judged by
ClassProbs ==
    IF action = "prepare_submission"
    THEN [j \in 1 .. 3 |-> res.agg.global_classification[j].ln]
    ELSE res.agg.global_classification

\* C5: in all three submission functions the category signal is c + 0.1 * a
\* of the whole-image probabilities <<a, b, c>> (10 * signal = 10 * c + a);
\* b has no part in it.  In prepare_submission the detector returns
\* log-probabilities and the probabilities are their exponentials.
C5_CategorySignal ==
    Handled =>
        RMul(I(10), res.category) =
            RAdd(RMul(I(10), ClassProbs[3]), ClassProbs[1])

\* prepare_submission judged an image whose classes 0 and 1 differ
C5_Witness ==
    /\ Handled
    /\ action = "prepare_submission"
    /\ ClassProbs[1] # ClassProbs[2]
    /\ res.category = Rat(52, 100)

\* twice x is below y
BelowHalf(x, y) == RLt(RAdd(x, x), y)

\* C6: before the inclusion test every surviving score strictly below half
\* the top score is set to 0 and every other score is left as it is; the
\* top score, the first of the suppression output, is the largest surviving
\* score; a score of exactly half the top score is kept.
C6_Damping ==
    Handled =>
        /\ Len(res.scores) = Len(res.out.nms_scores)
        /\ \A i \in DOMAIN res.out.nms_scores :
              /\ RLe(res.out.nms_scores[i], res.out.nms_scores[1])
              /\ res.scores[i] =
                    IF BelowHalf(res.out.nms_scores[i], res.out.nms_scores[1])
                    THEN I(0) ELSE res.out.nms_scores[i]

\* a survivor at exactly half the top score was kept
C6_Witness ==
    /\ Handled
    /\ \E i \in DOMAIN res.scores :
          /\ RAdd(res.out.nms_scores[i], res.out.nms_scores[i]) =
                 res.out.nms_scores[1]
          /\ res.scores[i] = res.out.nms_scores[i]
          /\ res.scores[i] # I(0)

\* score * category_signal * 10 > threshold
PassesWithSignal(score, category, threshold) ==
    RLt(threshold, RMul(I(10), RMul(score, category)))

\* score * 5 > threshold
PassesDegraded(score, threshold) == RLt(threshold, RMul(I(5), score))

\* the boxes of the suppression output that pass the mask, as written
WrittenBoxes == {i \in DOMAIN res.mask : res.mask[i]}

\* the image's line is the last line of the file and holds one group per
\* box that passed
LineWritten ==
    /\ Len(submission.lines) = res.patient
    /\ submission.lines[res.patient].patientId = PatientIds[res.patient]
    /\ submission.lines[res.patient].PredictionString = res.line
    /\ Len(res.line) = Cardinality(WrittenBoxes)

\* C7 as stated: a surviving box is written iff its damped score passes
\* score * category_signal * 10 > threshold when the caller selected the
\* whole-image signal, score * 5 > threshold when the caller selected the
\* degraded mode, in every submission function.
C7_CallerSelectsModeEverywhere ==
    Handled =>
        /\ LineWritten
        /\ \A i \in DOMAIN res.scores :
              res.mask[i] <=>
                  IF args.use_global_cat
                  THEN PassesWithSignal(res.scores[i], res.category, args.threshold)
                  ELSE PassesDegraded(res.scores[i], args.threshold)

\* C7 as amended: prepare_submission_multifolds and
\* prepare_submission_from_saved use the mode the caller selected;
\* prepare_submission has the whole-image test only.
C7_InclusionTest ==
    Handled =>
        /\ LineWritten
        /\ \A i \in DOMAIN res.scores :
              res.mask[i] <=>
                  IF action = "prepare_submission" \/ args.use_global_cat
                  THEN PassesWithSignal(res.scores[i], res.category, args.threshold)
                  ELSE PassesDegraded(res.scores[i], args.threshold)

\* the degraded mode wrote one survivor and left out another whose score
\* was not damped to 0
C7_Witness ==
    /\ Aggregated
    /\ ~args.use_global_cat
    /\ \E i, j \in DOMAIN res.scores :
          /\ res.mask[i]
          /\ ~res.mask[j]
          /\ res.scores[j] # I(0)

(***************************************************************************)
(* The same post-processing with suppression run on the full box set, for  *)
(* comparison with the pre-filtered run of RetinaNet.boxes.                *)
(***************************************************************************)
FullSetScores == [i \in DOMAIN res.agg.classification |->
                     RowMax(res.agg.classification[i])]

FullSetIdx == Nms(res.out.clipped, FullSetScores, NmsThreshold)

FullSetDamped == Damp(Take(FullSetScores, FullSetIdx))

FullSetMask ==
    IF args.use_global_cat
    THEN MaskGlobalCat(FullSetDamped, res.category, args.threshold)
    ELSE MaskNoGlobalCat(FullSetDamped, args.threshold)

FullSetLine ==
    SubmissionStr(FullSetDamped, Take(res.out.clipped, FullSetIdx), FullSetMask,
                  ImgSize)

\* C8 as stated: for every threshold and both modes the boxes written are
\* those written when suppression runs on the full box set.
C8_PrefilterNeverShows == Aggregated => res.line = FullSetLine

\* C8 as amended: the same, for every threshold of at least 0.25 (ten times
\* the floor of 0.025).
C8_PrefilterHiddenAboveTenFloors ==
    (Aggregated /\ RLe(Rat(1, 4), args.threshold)) => res.line = FullSetLine

\* at a threshold of at least 0.25 a line with a box was written while the
\* pre-filter had dropped a box that survives suppression on the full set
C8_Witness ==
    /\ Aggregated
    /\ RLe(Rat(1, 4), args.threshold)
    /\ Len(res.line) > 0
    /\ Len(res.out.scores_over_thresh) < Len(res.out.clipped)
    /\ Len(FullSetIdx) > Len(res.out.anchors_nms_idx)

\* the boxes and scores handed to nms by RetinaNet.boxes
NmsBoxes == Take(res.out.clipped, res.out.scores_over_thresh)

NmsScores == Take(FullSetScores, res.out.scores_over_thresh)

\* C9: the indices returned by suppression, as invoked by RetinaNet.boxes
\* with threshold 0.05, are input indices without repetition, in descending
\* score order with equal scores in ascending index order, and no two
\* returned boxes have IoU above 0.05.
C9_SuppressionOutput ==
    Handled =>
        LET idx == res.out.anchors_nms_idx
        IN  /\ \A k \in DOMAIN idx : idx[k] \in 1 .. Len(NmsBoxes)
            /\ \A k, l \in DOMAIN idx :
                  k < l =>
                      /\ idx[k] # idx[l]
                      /\ \/ RLt(NmsScores[idx[l]], NmsScores[idx[k]])
                         \/ /\ NmsScores[idx[l]] = NmsScores[idx[k]]
                            /\ idx[k] < idx[l]
                      /\ ~IoUExceeds(NmsBoxes[idx[k]], NmsBoxes[idx[l]], Rat(1, 20))

\* suppression removed a box and returned two boxes of equal score
C9_Witness ==
    /\ Handled
    /\ Len(res.out.anchors_nms_idx) = 2
    /\ Len(res.out.scores_over_thresh) = 3
    /\ res.out.nms_scores[1] = res.out.nms_scores[2]

\* C10: every decoded box, after clipping, satisfies
\* 0 <= x1 <= x2 <= image_width and 0 <= y1 <= y2 <= image_height.
C10_ClippedBoxesInsideImage ==
    Handled =>
        \A i \in DOMAIN res.out.clipped :
            LET b == res.out.clipped[i]
            IN  /\ RLe(I(0), b[1]) /\ RLe(b[1], b[3]) /\ RLe(b[3], I(ImgSize))
                /\ RLe(I(0), b[2]) /\ RLe(b[2], b[4]) /\ RLe(b[4], I(ImgSize))

(***************************************************************************)
(* Images without a detection.                                             *)
(***************************************************************************)
\* no per-box score the image was decoded from is above 0.025
NoScoreAboveFloor ==
    \A i \in DOMAIN res.agg.classification :
        \A c \in DOMAIN res.agg.classification[i] :
            RLe(res.agg.classification[i][c], Rat(25, 1000))

NoBoxPasses == \A i \in DOMAIN res.mask : ~res.mask[i]

\* the last line of the file is '<image_id>,' with nothing after the comma
EmptyLineWritten ==
    /\ Len(submission.lines) = res.patient
    /\ submission.lines[res.patient] =
           [patientId |-> PatientIds[res.patient], PredictionString |-> <<>>]

\* C11: an image none of whose scores is above the 0.025 floor comes out of
\* RetinaNet.boxes with empty score and box arrays; an image of which no box
\* passes the inclusion test (its score vector being empty or not) gets the
\* line '<image_id>,' with an empty prediction string; and no image whose raw
\* predictions are all there and of one shape ends in an error.
C11_NoDetectionIsEmptyLine ==
    /\ (Handled /\ NoScoreAboveFloor) =>
           /\ res.out.nms_scores = <<>>
           /\ res.out.transformed_anchors = <<>>
           /\ res.scores = <<>>
           /\ NoBoxPasses
    /\ (Handled /\ NoBoxPasses) => (res.line = <<>> /\ EmptyLineWritten)
    /\ (res.patient # 0 /\ res.failed) =>
           \/ Len(res.raws) < NumModels(args.epoch)
           \/ ~SameShapes(res.raws)

\* an image with a score exactly at the floor and none above it got the
\* empty line from an aggregating function
C11_Witness ==
    /\ Aggregated
    /\ NoScoreAboveFloor
    /\ \E i \in DOMAIN res.agg.classification :
          res.agg.classification[i][1] = Rat(25, 1000)
    /\ EmptyLineWritten

(***************************************************************************)
(* The submission file as a whole.                                         *)
(***************************************************************************)
\* the file holds the header and the lines of the first n images, in the
\* order of sample_submission.patientId
HeaderAndLinesOf(n) ==
    /\ submission.header = "patientId,PredictionString"
    /\ Len(submission.lines) = n
    /\ \A k \in 1 .. n : submission.lines[k].patientId = PatientIds[k]

\* C12: when a submission run has completed, the file is the header line
\* followed by exactly one line per image, in the order of the image list,
\* each beginning with the image's id; while the run goes through the images
\* the file holds the lines of the images before the current one.
C12_OneLinePerImageInOrder ==
    action \in SubmissionActions =>
        /\ pc = "images" => HeaderAndLinesOf(patient - 1)
        /\ pc = "done" => HeaderAndLinesOf(NumImages)

\* prepare_submission_multifolds completed with empty and non-empty lines
C12_Witness ==
    /\ action = "prepare_submission_multifolds"
    /\ pc = "done"
    /\ Len(submission.lines) = NumImages
    /\ \E j, k \in DOMAIN submission.lines :
          /\ submission.lines[j].PredictionString = <<>>
          /\ submission.lines[k].PredictionString # <<>>

(***************************************************************************)
(* reduce_wh.                                                              *)
(***************************************************************************)
\* rectangle g2 is g with the same score, the same centre and the width and
\* height multiplied by 1 - 0.05, as far as one decimal place can tell
\* (coordinates are in tenths: 2 * x + w is twice the centre)
Shrunk(g, g2) ==
    /\ g2.prob = g.prob
    /\ Abs((2 * g2.x + g2.w) - (2 * g.x + g.w)) <= 1
    /\ Abs((2 * g2.y + g2.h) - (2 * g.y + g.h)) <= 1
    /\ Abs(20 * g2.w - 19 * g.w) <= 10
    /\ Abs(20 * g2.h - 19 * g.h) <= 10

\* line2 has the id of line and its rectangles, shrunk, in the same order
ShrunkLine(line, line2) ==
    /\ line2.kind = "data"
    /\ line2.patientId = line.patientId
    /\ Len(line2.PredictionString) = Len(line.PredictionString)
    /\ \A k \in DOMAIN line.PredictionString :
          Shrunk(line.PredictionString[k], line2.PredictionString[k])

\* the data lines of the output are those of the submission, shrunk, whatever
\* else the output holds
DataLinesShrunk ==
    LET data == SelectSeq(updated_sub, LAMBDA l : l.kind = "data")
    IN  /\ Len(data) = Len(submission.lines)
        /\ \A k \in DOMAIN data :
              ShrunkLine(DataLine(submission.lines[k].patientId,
                                  submission.lines[k].PredictionString),
                         data[k])

\* the output is one header line immediately followed by the data lines
SubmissionFormat(file) ==
    /\ Len(file) >= 1
    /\ file[1].kind = "header"
    /\ \A k \in 2 .. Len(file) : file[k].kind = "data"

\* C13: reduce_wh applied to a finished submission file writes the header
\* line immediately followed by one line per image, with the same ids in the
\* same order, the same number of boxes and the same scores, every box
\* keeping its centre with width and height multiplied by 1 - reduce_size;
\* and reduce_wh applied to that output does not fail.
C13_ReduceKeepsFormat ==
    /\ pc = "reduced" => (SubmissionFormat(updated_sub) /\ DataLinesShrunk)
    /\ pc = "failed" => orig_sub = <<>>

(***************************************************************************)
(* The store of pickled raw predictions.                                   *)
(***************************************************************************)
\* the keys <<model_id, run_tag, fold_index, epoch_number, image_id>>
StoreKeys ==
    ModelNames \X Runs \X Folds \X Epochs \X {PatientIds[i] : i \in 1 .. NumImages}

\* what a reader finds under a key: <<raw prediction>>, or <<>> when the
\* file does not exist
ReadUnder(st, k) ==
    LET file == PickleFile(k[1], k[2], k[3], k[4], k[5])
    IN  IF file \in DOMAIN st THEN <<st[file]>> ELSE <<>>

\* the key prepare_test_predictions dumps under in its next step
DumpKey ==
    <<args.model, args.run, models[Len(models)][1], models[Len(models)][2],
      PatientIds[patient]>>

\* C14: a dump of prepare_test_predictions under key k makes the raw
\* prediction of the dumping model what is read under k, and leaves what is
\* read under every other key (any component differing, the model_id/run_tag
\* pair included) as it was.
C14_StoreIsKeyedMap ==
    [][(action = "prepare_test_predictions" /\ pc = "images") =>
           /\ ReadUnder(store', DumpKey) =
                  <<ForwardRawOf(args.model, models[Len(models)], patient)>>
           /\ \A k \in StoreKeys \ {DumpKey} :
                  ReadUnder(store', k) = ReadUnder(store, k)]_vars

(***************************************************************************)
(* Missing files.                                                          *)
(***************************************************************************)
\* the checkpoint files the running function loads
NeededCheckpoints ==
    CASE action = "prepare_submission" ->
             {CheckpointFile(args.model, args.run, args.fold, args.epoch)}
      [] action = "prepare_submission_from_saved" ->
             {CheckpointFile(args.model, args.run, 0, args.epoch[1])}
      [] OTHER ->
             {CheckpointFile(args.model, args.run, f, args.epoch[k]) :
                 f \in Folds, k \in DOMAIN args.epoch}

\* the raw-prediction files the running function reads for image i
NeededPickles(i) ==
    IF action = "prepare_submission_from_saved"
    THEN {PickleFile(args.model, args.run, f, args.epoch[k], PatientIds[i]) :
             f \in Folds, k \in DOMAIN args.epoch}
    ELSE {}

MissingFor(i) ==
    \/ \E file \in NeededCheckpoints : file \notin checkpoints
    \/ \E file \in NeededPickles(i) : file \notin DOMAIN store

\* C15: when a checkpoint the function loads, or one of the 4 x epochs raw
\* predictions it reads for an image, is missing, no line is written for that
\* image or for a later one and the run does not complete; and every line an
\* aggregating function writes was computed from 4 raw predictions per
\* requested epoch.
C15_MissingFileAborts ==
    action \in SubmissionActions =>
        /\ \A i \in 1 .. NumImages :
              MissingFor(i) =>
                  /\ Len(submission.lines) < i
                  /\ pc \in {"load", "images", "failed"}
        /\ Aggregated => Len(res.raws) = 4 * Len(args.epoch)

\* prepare_submission_from_saved stopped at the second image, whose third
\* raw prediction is missing, after the line of the first image
C15_Witness ==
    /\ action = "prepare_submission_from_saved"
    /\ MissingFor(2)
    /\ ~MissingFor(1)
    /\ pc = "failed"
    /\ res.patient = 2
    /\ res.failed
    /\ Len(res.raws) = 2
    /\ Len(submission.lines) = 1

(***************************************************************************)
(* The order of model calls, reads and writes (the log).                   *)
(***************************************************************************)
\* a model instance is applied to an image: run on it, or its cached raw
\* prediction of the image is read
AppliesTo(e) == e.op \in {"infer", "read"}

\* the instance of fold and epoch that is j-th of 4 x epochs, j from 1
InstanceNo(j) == <<(j - 1) % 4, args.epoch[((j - 1) \div 4) + 1]>>

\* image by image: an instance is applied to an image only as the first
\* event after the loads (image 1), after another instance on the same image,
\* or directly after the line of the image before was written; and a line is
\* written directly after all 4 x epochs instances, each once, were applied
\* to its image
ImageByImage ==
    LET n == 4 * Len(args.epoch)
    IN  \A b \in 2 .. Len(log) :
            /\ AppliesTo(log[b]) =>
                   \/ log[b - 1].op = "load" /\ log[b].image = 1
                   \/ AppliesTo(log[b - 1]) /\ log[b - 1].image = log[b].image
                   \/ log[b - 1] = Wrote(log[b].image - 1)
            /\ log[b].op = "write" =>
                   /\ b > n
                   /\ \A j \in 1 .. n :
                         /\ AppliesTo(log[b - n - 1 + j])
                         /\ log[b - n - 1 + j].model = InstanceNo(j)
                         /\ log[b - n - 1 + j].image = log[b].image

\* checkpoint by checkpoint: a loaded model is run on image 1, then on each
\* next image, and the next checkpoint is loaded after the last image;
\* nothing is written
CheckpointByCheckpoint ==
    \A b \in 2 .. Len(log) :
        /\ log[b].op # "write"
        /\ log[b].op = "infer" =>
               /\ log[b - 1].model = log[b].model
               /\ \/ log[b - 1].op = "load" /\ log[b].image = 1
                  \/ log[b - 1].op = "infer" /\ log[b].image = log[b - 1].image + 1
        /\ log[b].op = "load" => log[b - 1].op = "infer" /\ log[b - 1].image = NumImages

\* the images of the applications, in the order they happened, never go back
ImagesNeverGoBack ==
    LET apps == SelectSeq(log, AppliesTo)
    IN  \A k \in 1 .. Len(apps) - 1 : apps[k].image <= apps[k + 1].image

\* C16 as stated: in prepare_submission_multifolds, prepare_test_predictions
\* and prepare_submission_from_saved all instances are applied to image i
\* before any is applied to image i + 1, and the submission functions write
\* the line of image i before image i + 1 is touched.
C16_ImageByImageEverywhere ==
    /\ action \in MultiActions => ImageByImage
    /\ action = "prepare_test_predictions" => ImagesNeverGoBack

\* C16 as amended: prepare_submission_multifolds and
\* prepare_submission_from_saved work image by image;
\* prepare_test_predictions works checkpoint by checkpoint and writes no
\* line.
C16_ImageByImageWhenAggregating ==
    /\ action \in MultiActions => ImageByImage
    /\ action = "prepare_test_predictions" => CheckpointByCheckpoint

\* eight instances were run on the second image and its line was written
C16_Witness ==
    /\ action = "prepare_submission_multifolds"
    /\ Len(models) = 8
    /\ Len(log) > 0
    /\ log[Len(log)] = Wrote(2)
    /\ log[Len(log) - 1] = Inferred(<<3, args.epoch[2]>>, 2)

(***************************************************************************)
(* Checkpoint loads.                                                       *)
(***************************************************************************)
IsLoad(e) == e.op = "load"

\* the number of checkpoints the running function loads in a complete run
LoadsOfRun ==
    IF action \in {"prepare_submission", "prepare_submission_from_saved"}
    THEN 1
    ELSE 4 * Len(args.epoch)

\* the instances run on an image at the log positions in ks
InferringAt(ks) == {log[k].model : k \in {j \in ks : log[j].op = "infer"}}

C18_WrittenBoxesArePrefix ==
    Handled =>
        LET top == res.out.nms_scores
        IN  /\ WrittenBoxes = 1 .. Cardinality(WrittenBoxes)
            /\ \A i \in WrittenBoxes :
                  /\ \A j \in DOMAIN top : RLe(top[i], top[j]) => j \in WrittenBoxes
                  /\ RLe(top[1], RAdd(top[i], top[i]))
                  /\ res.scores[i] = top[i]
                  /\ res.scores[i] # I(0)
            /\ Len(res.line) = Cardinality(WrittenBoxes)
            /\ \A k \in 1 .. Len(res.line) - 1 :
                  res.line[k].prob >= res.line[k + 1].prob

\* at threshold 0 the top survivor was written and the second, damped to 0,
\* was left out
C18_Witness ==
    /\ Handled
    /\ args.threshold = I(0)
    /\ Len(res.scores) = 2
    /\ WrittenBoxes = {1}
    /\ res.out.nms_scores[2] # I(0)
    /\ res.scores[2] = I(0)

====
